---- MODULE Spec2Model ----
(***************************************************************************)
(* Parking-sensor firmware: the ultrasonic driver (hal/ultrasonic.c) and   *)
(* the application state machine (app/app.c).                              *)
(*                                                                         *)
(* The foreground (main loop) is modelled statement by statement: fn names *)
(* the function being executed and pc the statement about to run.  The    *)
(* echo line and the free-running capture timer are the environment; an    *)
(* edge of the configured polarity, while the capture interrupt is         *)
(* enabled, runs Ultrasonic_edgeProcessing atomically between two          *)
(* foreground statements.                                                  *)
(***************************************************************************)
EXTENDS Integers, Sequences, FiniteSets, TLC

VARIABLES
    fn,              \* function the foreground is executing
    pc,              \* index of the statement about to run in that function
    g_timeHigh,      \* ultrasonic.c:14
    g_edgeCount,     \* ultrasonic.c:23
    g_readyFlag,     \* ultrasonic.c:31
    l_distance,      \* ultrasonic.c:89
    g_distance,      \* app.c:107
    g_stateMachine,  \* app.c:116
    timer,           \* capture timer of the ICU
    edgeType,        \* edge polarity the ICU is configured to detect
    icuInt,          \* capture interrupt enabled
    echo,            \* level of the sensor's echo line
    trigger,         \* level of the trigger pin
    lcd,             \* writes issued to the display since the cursor was homed
    buzzer,          \* buzzer output
    led,             \* the three indicator outputs
    events,          \* history: statements executed by the current handler call
    nCaptures,       \* history: samples the edge handler stored in this call
    staleOverwritten,\* history: an unconsumed sample was replaced by another value
    clearedThisPulse,\* history: timer was cleared at the current pulse's rising edge
    sampleSinglePulse,\* history: g_timeHigh spans one single echo pulse
    tickAtOff,       \* history: g_timeHigh when ICU_interruptOff ran
    lastPair,        \* history: timer value at the last edge that completed a pair
    nReads,          \* history: reads of g_timeHigh by the foreground in this call
    steps            \* history: statements executed by this Ultrasonic_readDistance call

vars == <<fn, pc, g_timeHigh, g_edgeCount, g_readyFlag, l_distance, g_distance,
          g_stateMachine, timer, edgeType, icuInt, echo, trigger, lcd, buzzer,
          led, events, nCaptures, staleOverwritten, clearedThisPulse,
          sampleSinglePulse, tickAtOff, lastPair, nReads, steps>>

outputs == <<lcd, buzzer, led>>

-----------------------------------------------------------------------------
(* Program constants *)

DISTANCE_DANGER == 5
DISTANCE_WARNING_MAX == 10
DISTANCE_SAFE_MAX == 15
DISTANCE_DETECTED_MAX == 20
TICKS_PER_CM == 117
UINT16_MAX == 65535
LOGIC_HIGH == 1
LOGIC_LOW == 0

(* Model bounds *)

\* nCaptures saturates here
MaxCaptures == 2

\* Timer values observed in the full model: at least one per band, a value
\* that is no multiple of 117 and the largest 16-bit value;
\* ICU_clearTimerValue adds 0.
TickSamples == {200, 585, 702, 1404, 2400, 2457, 65535}

Bands == {"IDLE", "DETECTED", "SAFE", "WARNING", "DANGER"}
Leds == {"LED_RED_3", "LED_GREEN_2", "LED_BLUE_1"}

-----------------------------------------------------------------------------
(* Statements *)

S(op, arg) == [op |-> op, arg |-> arg]

TriggerStaysHigh ==
    << S("GPIO_ARR_setPinState", "LOGIC_HIGH"),
       S("_delay_us", "10") >>

\* ultrasonic.c:66-75
Ultrasonic_Trigger ==
    << S("GPIO_ARR_setPinState", "LOGIC_HIGH"),
       S("_delay_us", "10"),
       S("GPIO_ARR_setPinState", "LOGIC_LOW") >>

ReadDistanceReadsTwice ==
    << S("l_distance = 0", "") >> \o Ultrasonic_Trigger \o
    << S("ICU_interruptOn", ""),
       S("while (!g_readyFlag)", ""),
       S("ICU_interruptOff", ""),
       S("g_readyFlag = LOGIC_LOW", ""),
       S("l_distance = g_timeHigh / 117", ""),
       S("l_distance = g_timeHigh / 117", ""),
       S("return l_distance", "") >>

ReadDistanceNoClear ==
    << S("l_distance = 0", "") >> \o Ultrasonic_Trigger \o
    << S("ICU_interruptOn", ""),
       S("while (!g_readyFlag)", ""),
       S("ICU_interruptOff", ""),
       S("l_distance = g_timeHigh / 117", ""),
       S("return l_distance", "") >>

ReadDistanceReordered ==
    << S("l_distance = 0", "") >> \o Ultrasonic_Trigger \o
    << S("ICU_interruptOn", ""),
       S("while (!g_readyFlag)", ""),
       S("g_readyFlag = LOGIC_LOW", ""),
       S("l_distance = g_timeHigh / 117", ""),
       S("ICU_interruptOff", ""),
       S("return l_distance", "") >>

\* ultrasonic.c:88-110, Ultrasonic_Trigger inlined at its call
Ultrasonic_readDistance ==
    << S("l_distance = 0", "") >> \o Ultrasonic_Trigger \o
    << S("ICU_interruptOn", ""),
       S("while (!g_readyFlag)", ""),
       S("ICU_interruptOff", ""),
       S("g_readyFlag = LOGIC_LOW", ""),
       S("l_distance = g_timeHigh / 117", ""),
       S("return l_distance", "") >>

\* app.c:155-187: the cascade, then the switch
StateMachineHandler ==
    << S("g_stateMachine = classify(g_distance)", ""),
       S("switch (g_stateMachine)", "") >>

DangerSingleDelay ==
    << S("LCD_dispDataDanger", ""),
       S("Buzzer_on", ""),
       S("LED_on", "LED_RED_3"),
       S("LED_on", "LED_GREEN_2"),
       S("LED_on", "LED_BLUE_1"),
       S("_delay_ms", "200"),
       S("Buzzer_off", ""),
       S("LED_off", "LED_RED_3"),
       S("LED_off", "LED_GREEN_2"),
       S("LED_off", "LED_BLUE_1") >>

DangerNoBuzzerOff ==
    << S("LCD_dispDataDanger", ""),
       S("Buzzer_on", ""),
       S("LED_on", "LED_RED_3"),
       S("LED_on", "LED_GREEN_2"),
       S("LED_on", "LED_BLUE_1"),
       S("_delay_ms", "200"),
       S("LED_off", "LED_RED_3"),
       S("LED_off", "LED_GREEN_2"),
       S("LED_off", "LED_BLUE_1"),
       S("_delay_ms", "200") >>

\* app.c:195-207
handleDangerState ==
    << S("LCD_dispDataDanger", ""),
       S("Buzzer_on", ""),
       S("LED_on", "LED_RED_3"),
       S("LED_on", "LED_GREEN_2"),
       S("LED_on", "LED_BLUE_1"),
       S("_delay_ms", "200"),
       S("Buzzer_off", ""),
       S("LED_off", "LED_RED_3"),
       S("LED_off", "LED_GREEN_2"),
       S("LED_off", "LED_BLUE_1"),
       S("_delay_ms", "200") >>

\* app.c:215-221
handleWarningState ==
    << S("LCD_dispDataNorm", ""),
       S("Buzzer_off", ""),
       S("LED_on", "LED_RED_3"),
       S("LED_on", "LED_GREEN_2"),
       S("LED_on", "LED_BLUE_1") >>

SafeLeavesBlue ==
    << S("LCD_dispDataNorm", ""),
       S("Buzzer_off", ""),
       S("LED_on", "LED_RED_3"),
       S("LED_on", "LED_GREEN_2") >>

\* app.c:229-235
handleSafeState ==
    << S("LCD_dispDataNorm", ""),
       S("Buzzer_off", ""),
       S("LED_on", "LED_RED_3"),
       S("LED_on", "LED_GREEN_2"),
       S("LED_off", "LED_BLUE_1") >>

DetectedGreenOn ==
    << S("LCD_dispDataNorm", ""),
       S("Buzzer_off", ""),
       S("LED_on", "LED_RED_3"),
       S("LED_on", "LED_GREEN_2"),
       S("LED_off", "LED_BLUE_1") >>

\* app.c:243-249
handleDetectedState ==
    << S("LCD_dispDataNorm", ""),
       S("Buzzer_off", ""),
       S("LED_on", "LED_RED_3"),
       S("LED_off", "LED_GREEN_2"),
       S("LED_off", "LED_BLUE_1") >>

\* app.c:256-262
handleIdleState ==
    << S("LCD_dispDataNorm", ""),
       S("Buzzer_off", ""),
       S("LED_off", "LED_RED_3"),
       S("LED_off", "LED_GREEN_2"),
       S("LED_off", "LED_BLUE_1") >>

\* app.c:170-186: the handler the switch selects
HandlerOf(state) ==
    CASE state = "DANGER"   -> handleDangerState
      [] state = "WARNING"  -> handleWarningState
      [] state = "SAFE"     -> handleSafeState
      [] state = "DETECTED" -> handleDetectedState
      [] state = "IDLE"     -> handleIdleState

Body ==
    CASE fn = "Ultrasonic_readDistance" -> Ultrasonic_readDistance
      [] fn = "StateMachineHandler"     -> StateMachineHandler
      [] fn = "handler"                 -> HandlerOf(g_stateMachine)

AtEnd == pc > Len(Body)
Cur == IF AtEnd THEN S("}", "") ELSE Body[pc]
At(f, op) == fn = f /\ Cur.op = op

-----------------------------------------------------------------------------
(* Pure functions *)

ClassifyStrict(d) ==
    IF d < DISTANCE_DANGER THEN "DANGER"
    ELSE IF d < DISTANCE_WARNING_MAX THEN "WARNING"
    ELSE IF d < DISTANCE_SAFE_MAX THEN "SAFE"
    ELSE IF d < DISTANCE_DETECTED_MAX THEN "DETECTED"
    ELSE "IDLE"

\* app.c:157-167
Classify(d) ==
    IF d <= DISTANCE_DANGER THEN "DANGER"
    ELSE IF d <= DISTANCE_WARNING_MAX THEN "WARNING"
    ELSE IF d <= DISTANCE_SAFE_MAX THEN "SAFE"
    ELSE IF d <= DISTANCE_DETECTED_MAX THEN "DETECTED"
    ELSE "IDLE"

TicksToDistanceRounded(t) == ((t + 58) \div TICKS_PER_CM) % (UINT16_MAX + 1)

TicksToDistanceU8(t) == (t \div TICKS_PER_CM) % 256

\* ultrasonic.c:107
TicksToDistance(t) == (t \div TICKS_PER_CM) % (UINT16_MAX + 1)

-----------------------------------------------------------------------------
(* Display: the calls issued since the cursor was last moved home *)

WStr(s) == [call |-> "LCD_displayString", str |-> s, num |-> 0]
WInt(n) == [call |-> "LCD_intgerToString", str |-> "", num |-> n]

LCD_moveCursor(l, row, col) == IF row = 0 /\ col = 0 THEN << >> ELSE l
LCD_displayString(l, s) == Append(l, WStr(s))
LCD_intgerToString(l, n) == Append(l, WInt(n))

\* app.c:271-276
LCD_dispDataNorm(l, d) ==
    LCD_displayString(
        LCD_intgerToString(
            LCD_displayString(LCD_moveCursor(l, 0, 0), "Distance= "), d), "cm")

\* app.c:284-287
LCD_dispDataDanger(l) ==
    LCD_displayString(LCD_moveCursor(l, 0, 0), "      STOP      ")

-----------------------------------------------------------------------------
(* Capture unit (ICU) and the edge handler *)

ICU_clearTimerValue == timer' = 0
ICU_getInputCaptureValue == timer
ICU_setEdgeDetectionType(e) == edgeType' = e

EdgeProcessingKeepsUnconsumed ==
    IF g_edgeCount = 0
    THEN /\ ICU_clearTimerValue
         /\ ICU_setEdgeDetectionType("FALLING")
         /\ g_edgeCount' = (g_edgeCount + 1) % 256
         /\ UNCHANGED <<g_timeHigh, g_readyFlag>>
    ELSE IF g_edgeCount = 1
    THEN /\ g_timeHigh' = IF g_readyFlag = LOGIC_HIGH THEN g_timeHigh
                          ELSE ICU_getInputCaptureValue
         /\ g_readyFlag' = LOGIC_HIGH
         /\ ICU_setEdgeDetectionType("RAISING")
         /\ g_edgeCount' = 0
         /\ UNCHANGED timer
    ELSE UNCHANGED <<timer, edgeType, g_edgeCount, g_timeHigh, g_readyFlag>>

EdgeProcessingReadyOnRising ==
    IF g_edgeCount = 0
    THEN /\ ICU_clearTimerValue
         /\ ICU_setEdgeDetectionType("FALLING")
         /\ g_edgeCount' = (g_edgeCount + 1) % 256
         /\ g_readyFlag' = LOGIC_HIGH
         /\ UNCHANGED g_timeHigh
    ELSE IF g_edgeCount = 1
    THEN /\ g_timeHigh' = ICU_getInputCaptureValue
         /\ g_readyFlag' = LOGIC_HIGH
         /\ ICU_setEdgeDetectionType("RAISING")
         /\ g_edgeCount' = 0
         /\ UNCHANGED timer
    ELSE UNCHANGED <<timer, edgeType, g_edgeCount, g_timeHigh, g_readyFlag>>

EdgeProcessingKeepsFalling ==
    IF g_edgeCount = 0
    THEN /\ ICU_clearTimerValue
         /\ ICU_setEdgeDetectionType("FALLING")
         /\ g_edgeCount' = (g_edgeCount + 1) % 256
         /\ UNCHANGED <<g_timeHigh, g_readyFlag>>
    ELSE IF g_edgeCount = 1
    THEN /\ g_timeHigh' = ICU_getInputCaptureValue
         /\ g_readyFlag' = LOGIC_HIGH
         /\ g_edgeCount' = 0
         /\ UNCHANGED <<timer, edgeType>>
    ELSE UNCHANGED <<timer, edgeType, g_edgeCount, g_timeHigh, g_readyFlag>>

EdgeProcessingNoReady ==
    IF g_edgeCount = 0
    THEN /\ ICU_clearTimerValue
         /\ ICU_setEdgeDetectionType("FALLING")
         /\ g_edgeCount' = (g_edgeCount + 1) % 256
         /\ UNCHANGED <<g_timeHigh, g_readyFlag>>
    ELSE IF g_edgeCount = 1
    THEN /\ g_timeHigh' = ICU_getInputCaptureValue
         /\ ICU_setEdgeDetectionType("RAISING")
         /\ g_edgeCount' = 0
         /\ UNCHANGED <<timer, g_readyFlag>>
    ELSE UNCHANGED <<timer, edgeType, g_edgeCount, g_timeHigh, g_readyFlag>>

\* ultrasonic.c:122-135
Ultrasonic_edgeProcessing ==
    IF g_edgeCount = 0
    THEN /\ ICU_clearTimerValue
         /\ ICU_setEdgeDetectionType("FALLING")
         /\ g_edgeCount' = (g_edgeCount + 1) % 256
         /\ UNCHANGED <<g_timeHigh, g_readyFlag>>
    ELSE IF g_edgeCount = 1
    THEN /\ g_timeHigh' = ICU_getInputCaptureValue
         /\ g_readyFlag' = LOGIC_HIGH
         /\ ICU_setEdgeDetectionType("RAISING")
         /\ g_edgeCount' = 0
         /\ UNCHANGED timer
    ELSE UNCHANGED <<timer, edgeType, g_edgeCount, g_timeHigh, g_readyFlag>>

\* The ICU raises its interrupt for an edge to `level` iff the interrupt is
\* enabled and the edge has the configured polarity.
Detects(level) ==
    icuInt /\ edgeType = (IF level = 1 THEN "RAISING" ELSE "FALLING")

Min(a, b) == IF a < b THEN a ELSE b

\* History kept beside a handled edge.
EdgeHistory(level) ==
    /\ clearedThisPulse' =
          IF g_edgeCount = 0 THEN level = 1
          ELSE IF level = 1 THEN FALSE ELSE clearedThisPulse
    /\ IF g_edgeCount = 1
       THEN /\ nCaptures' = Min(nCaptures + 1, MaxCaptures)
            /\ lastPair' = timer
            /\ sampleSinglePulse' = (clearedThisPulse /\ level = 0)
            /\ staleOverwritten' =
                  (staleOverwritten
                      \/ (g_readyFlag = LOGIC_HIGH /\ timer # g_timeHigh))
       ELSE UNCHANGED <<nCaptures, sampleSinglePulse, staleOverwritten,
                        lastPair>>

EchoEdge(level) ==
    /\ echo = 1 - level
    /\ echo' = level
    /\ IF Detects(level)
       THEN Ultrasonic_edgeProcessing /\ EdgeHistory(level)
       ELSE /\ clearedThisPulse' = IF level = 1 THEN FALSE ELSE clearedThisPulse
            /\ UNCHANGED <<timer, edgeType, g_edgeCount, g_timeHigh, g_readyFlag,
                           nCaptures, sampleSinglePulse, staleOverwritten,
                           lastPair>>
    /\ UNCHANGED <<fn, pc, l_distance, g_distance, g_stateMachine, icuInt,
                   trigger, lcd, buzzer, led, events, tickAtOff, nReads, steps>>

EchoRise == EchoEdge(1)
EchoFall == EchoEdge(0)

\* The timer runs freely (modulo 2^16): at the next observation it holds
\* some other sampled value.
TimerCount ==
    /\ \E t \in TickSamples \ {timer} : timer' = t
    /\ UNCHANGED <<fn, pc, g_timeHigh, g_edgeCount, g_readyFlag, l_distance,
                   g_distance, g_stateMachine, edgeType, icuInt, echo, trigger,
                   lcd, buzzer, led, events, nCaptures, staleOverwritten,
                   clearedThisPulse, sampleSinglePulse, tickAtOff, lastPair,
                   nReads, steps>>

-----------------------------------------------------------------------------
(* Foreground: Ultrasonic_readDistance, ultrasonic.c:88-110 *)

isr == <<g_timeHigh, g_edgeCount, timer, edgeType, echo, clearedThisPulse,
         sampleSinglePulse, lastPair>>

\* ultrasonic.c:89
InitLocal ==
    /\ At("Ultrasonic_readDistance", "l_distance = 0")
    /\ l_distance' = 0
    /\ nCaptures' = 0
    /\ staleOverwritten' = FALSE
    /\ pc' = pc + 1
    /\ UNCHANGED <<fn, g_readyFlag, g_distance, g_stateMachine, icuInt, trigger,
                   lcd, buzzer, led, events, tickAtOff>>
    /\ nReads' = 0
    /\ steps' = << Cur >>
    /\ UNCHANGED isr

\* ultrasonic.c:68 and :74
GPIO_ARR_setPinState ==
    /\ At("Ultrasonic_readDistance", "GPIO_ARR_setPinState")
    /\ trigger' = IF Cur.arg = "LOGIC_HIGH" THEN LOGIC_HIGH ELSE LOGIC_LOW
    /\ pc' = pc + 1
    /\ UNCHANGED <<fn, g_readyFlag, l_distance, g_distance, g_stateMachine,
                   icuInt, lcd, buzzer, led, events, nCaptures,
                   staleOverwritten, tickAtOff>>
    /\ steps' = Append(steps, Cur)
    /\ UNCHANGED nReads
    /\ UNCHANGED isr

\* ultrasonic.c:71
DelayUs ==
    /\ At("Ultrasonic_readDistance", "_delay_us")
    /\ pc' = pc + 1
    /\ UNCHANGED <<fn, g_readyFlag, l_distance, g_distance, g_stateMachine,
                   icuInt, trigger, lcd, buzzer, led, events, nCaptures,
                   staleOverwritten, tickAtOff>>
    /\ steps' = Append(steps, Cur)
    /\ UNCHANGED nReads
    /\ UNCHANGED isr

\* ultrasonic.c:95
ICU_interruptOn ==
    /\ At("Ultrasonic_readDistance", "ICU_interruptOn")
    /\ icuInt' = TRUE
    /\ pc' = pc + 1
    /\ UNCHANGED <<fn, g_readyFlag, l_distance, g_distance, g_stateMachine,
                   trigger, lcd, buzzer, led, events, nCaptures,
                   staleOverwritten, tickAtOff>>
    /\ steps' = Append(steps, Cur)
    /\ UNCHANGED nReads
    /\ UNCHANGED isr

WaitTimesOut == TRUE

\* ultrasonic.c:98: the loop is left when the flag is seen set
WaitDone == g_readyFlag # 0

\* ultrasonic.c:98: while the flag is clear the loop spins (a stuttering step)
WaitReady ==
    /\ At("Ultrasonic_readDistance", "while (!g_readyFlag)")
    /\ WaitDone
    /\ pc' = pc + 1
    /\ UNCHANGED <<fn, g_readyFlag, l_distance, g_distance, g_stateMachine,
                   icuInt, trigger, lcd, buzzer, led, events, nCaptures,
                   staleOverwritten, tickAtOff>>
    /\ steps' = Append(steps, Cur)
    /\ UNCHANGED nReads
    /\ UNCHANGED isr

\* ultrasonic.c:101
ICU_interruptOff ==
    /\ At("Ultrasonic_readDistance", "ICU_interruptOff")
    /\ icuInt' = FALSE
    /\ tickAtOff' = g_timeHigh
    /\ pc' = pc + 1
    /\ UNCHANGED <<fn, g_readyFlag, l_distance, g_distance, g_stateMachine,
                   trigger, lcd, buzzer, led, events, nCaptures,
                   staleOverwritten>>
    /\ steps' = Append(steps, Cur)
    /\ UNCHANGED nReads
    /\ UNCHANGED isr

ClearReadyAndCount ==
    /\ At("Ultrasonic_readDistance", "g_readyFlag = LOGIC_LOW")
    /\ g_readyFlag' = LOGIC_LOW
    /\ g_edgeCount' = 0
    /\ pc' = pc + 1
    /\ steps' = Append(steps, Cur)
    /\ UNCHANGED <<fn, l_distance, g_distance, g_stateMachine, icuInt, trigger,
                   lcd, buzzer, led, events, nCaptures, staleOverwritten,
                   tickAtOff, nReads, g_timeHigh, timer, edgeType, echo,
                   clearedThisPulse, sampleSinglePulse, lastPair>>

\* ultrasonic.c:104
ClearReady ==
    /\ At("Ultrasonic_readDistance", "g_readyFlag = LOGIC_LOW")
    /\ g_readyFlag' = LOGIC_LOW
    /\ pc' = pc + 1
    /\ UNCHANGED <<fn, l_distance, g_distance, g_stateMachine, icuInt, trigger,
                   lcd, buzzer, led, events, nCaptures, staleOverwritten,
                   tickAtOff>>
    /\ steps' = Append(steps, Cur)
    /\ UNCHANGED nReads
    /\ UNCHANGED isr

\* ultrasonic.c:107
Calc ==
    /\ At("Ultrasonic_readDistance", "l_distance = g_timeHigh / 117")
    /\ l_distance' = TicksToDistance(g_timeHigh)
    /\ pc' = pc + 1
    /\ UNCHANGED <<fn, g_readyFlag, g_distance, g_stateMachine, icuInt, trigger,
                   lcd, buzzer, led, events, nCaptures, staleOverwritten,
                   tickAtOff>>
    /\ nReads' = Min(nReads + 1, MaxCaptures)
    /\ steps' = Append(steps, Cur)
    /\ UNCHANGED isr

ReturnSkipsHandler ==
    /\ At("Ultrasonic_readDistance", "return l_distance")
    /\ g_distance' = l_distance
    /\ fn' = "handler"
    /\ pc' = 1
    /\ steps' = Append(steps, Cur)
    /\ events' = << >>
    /\ UNCHANGED <<g_readyFlag, l_distance, g_stateMachine, icuInt, trigger,
                   lcd, buzzer, led, nCaptures, staleOverwritten, tickAtOff,
                   nReads>>
    /\ UNCHANGED isr

\* ultrasonic.c:109 and app.c:142-145
Return ==
    /\ At("Ultrasonic_readDistance", "return l_distance")
    /\ g_distance' = l_distance
    /\ fn' = "StateMachineHandler"
    /\ pc' = 1
    /\ UNCHANGED <<g_readyFlag, l_distance, g_stateMachine, icuInt, trigger,
                   lcd, buzzer, led, events, nCaptures, staleOverwritten,
                   tickAtOff>>
    /\ steps' = Append(steps, Cur)
    /\ UNCHANGED nReads
    /\ UNCHANGED isr

-----------------------------------------------------------------------------
(* Foreground: StateMachineHandler and the state handlers, app.c:155-262 *)

\* app.c:157-167
ClassifyStmt ==
    /\ At("StateMachineHandler", "g_stateMachine = classify(g_distance)")
    /\ g_stateMachine' = Classify(g_distance)
    /\ pc' = pc + 1
    /\ UNCHANGED <<fn, g_readyFlag, l_distance, g_distance, icuInt, trigger,
                   lcd, buzzer, led, events, nCaptures, staleOverwritten,
                   tickAtOff>>
    /\ UNCHANGED <<nReads, steps>>
    /\ UNCHANGED isr

\* app.c:170-186
Switch ==
    /\ At("StateMachineHandler", "switch (g_stateMachine)")
    /\ fn' = "handler"
    /\ pc' = 1
    /\ events' = << >>
    /\ UNCHANGED <<g_readyFlag, l_distance, g_distance, g_stateMachine, icuInt,
                   trigger, lcd, buzzer, led, nCaptures, staleOverwritten,
                   tickAtOff>>
    /\ UNCHANGED <<nReads, steps>>
    /\ UNCHANGED isr

\* The frame of one handler statement: it is logged and control moves on.
HandlerStmt(op) ==
    /\ At("handler", op)
    /\ events' = Append(events, Cur)
    /\ pc' = pc + 1
    /\ UNCHANGED <<fn, g_readyFlag, l_distance, g_distance, g_stateMachine,
                   icuInt, trigger, nCaptures, staleOverwritten, tickAtOff>>
    /\ UNCHANGED <<nReads, steps>>
    /\ UNCHANGED isr

\* app.c:216 (and :230, :244, :257)
DispDataNorm ==
    /\ HandlerStmt("LCD_dispDataNorm")
    /\ lcd' = LCD_dispDataNorm(lcd, g_distance)
    /\ UNCHANGED <<buzzer, led>>

\* app.c:196
DispDataDanger ==
    /\ HandlerStmt("LCD_dispDataDanger")
    /\ lcd' = LCD_dispDataDanger(lcd)
    /\ UNCHANGED <<buzzer, led>>

\* app.c:197
Buzzer_on ==
    /\ HandlerStmt("Buzzer_on")
    /\ buzzer' = TRUE
    /\ UNCHANGED <<lcd, led>>

\* app.c:202 (and :217, :231, :245, :258)
Buzzer_off ==
    /\ HandlerStmt("Buzzer_off")
    /\ buzzer' = FALSE
    /\ UNCHANGED <<lcd, led>>

\* app.c:198-200 (and the other handlers)
LED_on ==
    /\ HandlerStmt("LED_on")
    /\ led' = [led EXCEPT ![Cur.arg] = TRUE]
    /\ UNCHANGED <<lcd, buzzer>>

\* app.c:203-205 (and the other handlers)
LED_off ==
    /\ HandlerStmt("LED_off")
    /\ led' = [led EXCEPT ![Cur.arg] = FALSE]
    /\ UNCHANGED <<lcd, buzzer>>

\* app.c:201 and :206
DelayMs ==
    /\ HandlerStmt("_delay_ms")
    /\ UNCHANGED <<lcd, buzzer, led>>

\* The handler, the switch and StateMachineHandler return; the loop of
\* app.c:140-146 calls Ultrasonic_readDistance again.
HandlerReturn ==
    /\ fn = "handler"
    /\ AtEnd
    /\ fn' = "Ultrasonic_readDistance"
    /\ pc' = 1
    /\ UNCHANGED <<g_readyFlag, l_distance, g_distance, g_stateMachine, icuInt,
                   trigger, lcd, buzzer, led, events, nCaptures,
                   staleOverwritten, tickAtOff>>
    /\ UNCHANGED <<nReads, steps>>
    /\ UNCHANGED isr

-----------------------------------------------------------------------------
(* Specifications *)

\* app.c:126-137 and ultrasonic.c:14-56: the state when the loop is entered.
\* The capture interrupt is off until ICU_interruptOn enables it, the ICU
\* detects rising edges (ultrasonic.c:45) and the echo line is low.
Init ==
    /\ fn = "Ultrasonic_readDistance"
    /\ pc = 1
    /\ g_timeHigh = 0
    /\ g_edgeCount = 0
    /\ g_readyFlag = 0
    /\ l_distance = 0
    /\ g_distance = 0
    /\ g_stateMachine = "IDLE"
    /\ timer = 0
    /\ edgeType = "RAISING"
    /\ icuInt = FALSE
    /\ echo = 0
    /\ trigger = LOGIC_LOW
    /\ lcd = << >>
    /\ buzzer = FALSE
    /\ led = [c \in Leds |-> FALSE]
    /\ events = << >>
    /\ nCaptures = 0
    /\ staleOverwritten = FALSE
    /\ clearedThisPulse = FALSE
    /\ sampleSinglePulse = TRUE
    /\ tickAtOff = 0
    /\ lastPair = 0
    /\ nReads = 0
    /\ steps = << >>

Next ==
    \/ InitLocal
    \/ GPIO_ARR_setPinState
    \/ DelayUs
    \/ ICU_interruptOn
    \/ WaitReady
    \/ ICU_interruptOff
    \/ ClearReady
    \/ Calc
    \/ Return
    \/ ClassifyStmt
    \/ Switch
    \/ DispDataNorm
    \/ DispDataDanger
    \/ Buzzer_on
    \/ Buzzer_off
    \/ LED_on
    \/ LED_off
    \/ DelayMs
    \/ HandlerReturn
    \/ EchoRise
    \/ EchoFall
    \/ TimerCount

\* The statements of the main loop and of the functions it calls.
Foreground ==
    \/ InitLocal
    \/ GPIO_ARR_setPinState
    \/ DelayUs
    \/ ICU_interruptOn
    \/ WaitReady
    \/ ICU_interruptOff
    \/ ClearReady
    \/ Calc
    \/ Return
    \/ ClassifyStmt
    \/ Switch
    \/ DispDataNorm
    \/ DispDataDanger
    \/ Buzzer_on
    \/ Buzzer_off
    \/ LED_on
    \/ LED_off
    \/ DelayMs
    \/ HandlerReturn

Spec == Init /\ [][Next]_vars

\* The conversion and the classifier on every 16-bit tick count: the first
\* measurement has captured t and the foreground is about to convert it.
InitFn ==
    /\ fn = "Ultrasonic_readDistance"
    /\ pc = Len(Ultrasonic_readDistance) - 1
    /\ g_timeHigh \in 0..UINT16_MAX
    /\ g_edgeCount = 0
    /\ g_readyFlag = 0
    /\ l_distance = 0
    /\ g_distance = 0
    /\ g_stateMachine = "IDLE"
    /\ timer = g_timeHigh
    /\ edgeType = "RAISING"
    /\ icuInt = FALSE
    /\ echo = 0
    /\ trigger = LOGIC_LOW
    /\ lcd = << >>
    /\ buzzer = FALSE
    /\ led = [c \in Leds |-> FALSE]
    /\ events = << >>
    /\ nCaptures = 1
    /\ staleOverwritten = FALSE
    /\ clearedThisPulse = TRUE
    /\ sampleSinglePulse = TRUE
    /\ tickAtOff = g_timeHigh
    /\ lastPair = g_timeHigh
    /\ nReads = 0
    /\ steps = SubSeq(Ultrasonic_readDistance, 1, Len(Ultrasonic_readDistance) - 2)

NextFn ==
    \/ Calc
    \/ Return
    \/ ClassifyStmt

\* A responding sensor and a running processor: the echo line keeps
\* producing rising and falling edges and the foreground keeps executing.
SpecLive ==
    /\ Init
    /\ [][Next]_vars
    /\ WF_vars(Foreground)
    /\ WF_vars(EchoRise)
    /\ WF_vars(EchoFall)

SpecFn == InitFn /\ [][NextFn]_vars

\* One whole cycle on every 16-bit tick count: conversion, classification
\* and the selected handler.
NextCycle ==
    \/ Calc
    \/ Return
    \/ ClassifyStmt
    \/ Switch
    \/ DispDataNorm
    \/ DispDataDanger
    \/ Buzzer_on
    \/ Buzzer_off
    \/ LED_on
    \/ LED_off
    \/ DelayMs

SpecCycle == InitFn /\ [][NextCycle]_vars

-----------------------------------------------------------------------------
(* Properties *)

InRead(ops) == fn = "Ultrasonic_readDistance" /\ Cur.op \in ops

\* The selected handler has run its last statement.
RenderDone == fn = "handler" /\ AtEnd

\* StateMachineHandler has chosen the band for g_distance.
Classified == (fn = "StateMachineHandler" /\ pc = 2) \/ fn = "handler"

\* This step is an echo edge that the ICU hands to the edge handler.
Handled == echo' # echo /\ Detects(echo')

Rgb == <<led["LED_RED_3"], led["LED_GREEN_2"], led["LED_BLUE_1"]>>

\* C1: once StateMachineHandler has classified g_distance, the band is Danger
\* iff d <= 5, Warning iff 6 <= d <= 10, Safe iff 11 <= d <= 15, Detected iff
\* 16 <= d <= 20 and Idle iff d > 20: exactly one band, no gap, no overlap.
C1_ClassifierPartition ==
    Classified =>
        /\ g_stateMachine \in Bands
        /\ (g_stateMachine = "DANGER") <=> (g_distance <= 5)
        /\ (g_stateMachine = "WARNING") <=> (6 <= g_distance /\ g_distance <= 10)
        /\ (g_stateMachine = "SAFE") <=> (11 <= g_distance /\ g_distance <= 15)
        /\ (g_stateMachine = "DETECTED") <=> (16 <= g_distance /\ g_distance <= 20)
        /\ (g_stateMachine = "IDLE") <=> (g_distance > 20)

C1_Witness ==
    /\ fn = "StateMachineHandler" /\ pc = 2
    /\ g_distance = 16
    /\ g_stateMachine = "DETECTED"

C3_NonDangerOutputs ==
    (RenderDone /\ g_distance > 5) =>
        /\ lcd = << WStr("Distance= "), WInt(g_distance), WStr("cm") >>
        /\ buzzer = FALSE
        /\ g_distance <= 10 => Rgb = <<TRUE, TRUE, TRUE>>
        /\ (11 <= g_distance /\ g_distance <= 15) => Rgb = <<TRUE, TRUE, FALSE>>
        /\ (16 <= g_distance /\ g_distance <= 20) => Rgb = <<TRUE, FALSE, FALSE>>
        /\ g_distance > 20 => Rgb = <<FALSE, FALSE, FALSE>>

C3_Witness ==
    /\ RenderDone
    /\ g_distance = 12
    /\ Rgb = <<TRUE, TRUE, FALSE>>
    /\ lcd = << WStr("Distance= "), WInt(12), WStr("cm") >>

OpsOf(ev) == [i \in 1..Len(ev) |-> ev[i].op]

\* C4: one call of the Danger handler shows STOP, turns the buzzer and the
\* three indicators on, holds 200 ms, turns them off and holds 200 ms, in this
\* order and once; everything is on during the first hold and off during the
\* second and at the return.
C4_DangerSequence ==
    /\ (RenderDone /\ g_distance <= 5) =>
          /\ OpsOf(events) =
                << "LCD_dispDataDanger", "Buzzer_on", "LED_on", "LED_on",
                   "LED_on", "_delay_ms", "Buzzer_off", "LED_off", "LED_off",
                   "LED_off", "_delay_ms" >>
          /\ \A i \in {6, 11} : events[i].arg = "200"
          /\ buzzer = FALSE
          /\ Rgb = <<FALSE, FALSE, FALSE>>
          /\ lcd = << WStr("      STOP      ") >>
    /\ (At("handler", "_delay_ms") /\ Len(events) = 5) =>
          /\ buzzer = TRUE
          /\ Rgb = <<TRUE, TRUE, TRUE>>
          /\ lcd = << WStr("      STOP      ") >>
    /\ (At("handler", "_delay_ms") /\ Len(events) > 5) =>
          /\ buzzer = FALSE
          /\ Rgb = <<FALSE, FALSE, FALSE>>

C4_Witness ==
    /\ RenderDone
    /\ g_distance = 5
    /\ Len(events) = 11
    /\ buzzer = FALSE

\* C5: a handled edge with g_edgeCount = 0 and the ready flag clear leaves the
\* flag clear and sets g_edgeCount to 1; the next handled edge sets the flag,
\* stores the timer value in g_timeHigh and sets g_edgeCount back to 0.
C5_EdgeCaptureCycle ==
    [][Handled =>
          /\ (g_edgeCount = 0 /\ g_readyFlag = 0) =>
                (g_readyFlag' = 0 /\ g_edgeCount' = 1)
          /\ g_edgeCount = 1 =>
                (g_readyFlag' = 1 /\ g_timeHigh' = timer /\ g_edgeCount' = 0)]_vars

C5_Witness ==
    /\ InRead({"while (!g_readyFlag)"})
    /\ nCaptures = 1
    /\ g_readyFlag = 1
    /\ g_edgeCount = 0
    /\ g_timeHigh = 2400

\* C6: when Ultrasonic_readDistance drives the trigger high, g_edgeCount is 0
\* (the handler is waiting for a rising edge).
C6_ArmedAtTrigger ==
    (InRead({"GPIO_ARR_setPinState"}) /\ Cur.arg = "LOGIC_HIGH") =>
        g_edgeCount = 0

\* C7: the tick count Ultrasonic_readDistance has converted was cleared at the
\* rising edge and read at the falling edge of one and the same echo pulse.
C7_SinglePulseSample ==
    InRead({"return l_distance"}) => sampleSinglePulse

\* C8: the capture interrupt is off when the ready flag is cleared and when
\* g_timeHigh is read, the handler does not run in between, and the distance
\* is that of g_timeHigh as it stood when the interrupt was turned off.
C8_InterruptOffBeforeRead ==
    /\ [](InRead({"g_readyFlag = LOGIC_LOW", "l_distance = g_timeHigh / 117"})
            => ~icuInt)
    /\ [](InRead({"return l_distance"}) => l_distance = tickAtOff \div 117)
    /\ [][InRead({"g_readyFlag = LOGIC_LOW", "l_distance = g_timeHigh / 117"})
            => UNCHANGED <<g_timeHigh, g_edgeCount, edgeType>>]_vars

C8_Witness ==
    /\ InRead({"return l_distance"})
    /\ tickAtOff = 2400
    /\ l_distance = 20
    /\ echo = 1
    /\ edgeType = "RAISING"

\* C9: Ultrasonic_readDistance gets past its wait only after the handler has
\* stored a sample in this call; as long as none is stored the foreground
\* stays in the wait, the capture interrupt stays enabled and no output is
\* written.
C9_NoTimeout ==
    /\ [](InRead({"ICU_interruptOff", "g_readyFlag = LOGIC_LOW",
                  "l_distance = g_timeHigh / 117", "return l_distance"})
            => nCaptures >= 1)
    /\ [](InRead({"while (!g_readyFlag)"}) => icuInt)
    /\ [][(InRead({"while (!g_readyFlag)"}) /\ nCaptures' = 0) =>
            /\ fn' = fn /\ pc' = pc
            /\ icuInt'
            /\ UNCHANGED outputs]_vars

C9_Witness ==
    /\ InRead({"while (!g_readyFlag)"})
    /\ nCaptures = 0
    /\ g_edgeCount = 1
    /\ echo = 1
    /\ lcd # << >>

\* C10: an edge pair completed while the ready flag is still set overwrites
\* g_timeHigh and leaves the flag set and the foreground where it is; the
\* distance returned is that of the last completed pair.
C10_LastPairWins ==
    /\ [](InRead({"return l_distance"}) => l_distance = lastPair \div 117)
    /\ [][(Handled /\ g_edgeCount = 1 /\ g_readyFlag = 1) =>
            /\ g_timeHigh' = timer
            /\ g_readyFlag' = 1
            /\ fn' = fn /\ pc' = pc]_vars

C10_Witness ==
    /\ InRead({"return l_distance"})
    /\ staleOverwritten
    /\ nCaptures = 2
    /\ lastPair = 2400
    /\ l_distance = 20

\* Ultrasonic_readDistance has just returned into the main loop.
CallCompleted == fn = "StateMachineHandler" /\ pc = 1

\* C11 as stated: in a completed Ultrasonic_readDistance call the handler has
\* stored g_timeHigh exactly once and the foreground has read it exactly once.
C11_ExactlyOnceSample ==
    CallCompleted => (nCaptures = 1 /\ nReads = 1)

\* C11 as amended: in a completed Ultrasonic_readDistance call the handler has
\* stored g_timeHigh at least once and the foreground has read it exactly
\* once.
C11_AtLeastOnceReadOnce ==
    CallCompleted => (nCaptures >= 1 /\ nReads = 1)

C11_Witness ==
    /\ CallCompleted
    /\ nCaptures = 2
    /\ nReads = 1
    /\ staleOverwritten

\* C12: a completed Ultrasonic_readDistance call has driven the trigger high,
\* then low, enabled the capture interrupt, waited for the ready flag,
\* disabled the interrupt, cleared the flag, computed the distance and
\* returned, in this order; the trigger is low outside the trigger pulse.
C12_ReadDistanceOrder ==
    /\ CallCompleted =>
          /\ OpsOf(steps) =
                << "l_distance = 0", "GPIO_ARR_setPinState", "_delay_us",
                   "GPIO_ARR_setPinState", "ICU_interruptOn",
                   "while (!g_readyFlag)", "ICU_interruptOff",
                   "g_readyFlag = LOGIC_LOW", "l_distance = g_timeHigh / 117",
                   "return l_distance" >>
          /\ steps[2].arg = "LOGIC_HIGH"
          /\ steps[4].arg = "LOGIC_LOW"
    /\ trigger = 1 =>
          (fn = "Ultrasonic_readDistance" /\ Len(steps) \in {2, 3})
    /\ InRead({"while (!g_readyFlag)"}) => (icuInt /\ trigger = 0)
    /\ InRead({"g_readyFlag = LOGIC_LOW"}) => (~icuInt /\ g_readyFlag = 1)
    /\ InRead({"l_distance = g_timeHigh / 117"}) => (~icuInt /\ g_readyFlag = 0)

C12_Witness ==
    /\ CallCompleted
    /\ Len(steps) = 10
    /\ trigger = 0
    /\ ~icuInt
    /\ g_distance = 20

\* C13: only a handled edge changes g_timeHigh or g_edgeCount or sets the
\* ready flag; every other step leaves them alone or clears the flag; a
\* handled edge leaves the distance, the band, the indicators, the buzzer,
\* the display and the trigger line unchanged.
C13_SingleWriter ==
    /\ [][~Handled =>
            /\ UNCHANGED <<g_timeHigh, g_edgeCount>>
            /\ (g_readyFlag' = g_readyFlag \/ g_readyFlag' = 0)]_vars
    /\ [][Handled =>
            UNCHANGED <<l_distance, g_distance, g_stateMachine, led, buzzer,
                        lcd, trigger>>]_vars

C13_Witness ==
    /\ InRead({"while (!g_readyFlag)"})
    /\ g_readyFlag = 1
    /\ g_timeHigh = 1404
    /\ g_distance = 5
    /\ Rgb = <<FALSE, FALSE, FALSE>>
    /\ lcd = << WStr("      STOP      ") >>

\* C14: control passes from Ultrasonic_readDistance to StateMachineHandler,
\* from there to the selected handler and from there back to
\* Ultrasonic_readDistance, and in no other way; the foreground can always
\* take a step unless it waits for the ready flag; the handler that runs is
\* that of the band of the distance the preceding call returned.
C14_MainLoopSequencing ==
    /\ [][fn' # fn =>
            \/ (InRead({"return l_distance"}) /\ fn' = "StateMachineHandler"
                    /\ pc' = 1 /\ g_distance' = l_distance)
            \/ (fn = "StateMachineHandler" /\ pc = 2 /\ fn' = "handler"
                    /\ pc' = 1)
            \/ (RenderDone /\ fn' = "Ultrasonic_readDistance" /\ pc' = 1)]_vars
    /\ [](fn = "handler" =>
            /\ g_distance = l_distance
            /\ g_distance = lastPair \div 117
            /\ Body = (IF g_distance <= 5 THEN handleDangerState
                       ELSE IF g_distance <= 10 THEN handleWarningState
                       ELSE IF g_distance <= 15 THEN handleSafeState
                       ELSE IF g_distance <= 20 THEN handleDetectedState
                       ELSE handleIdleState)
            /\ events = SubSeq(Body, 1, pc - 1))
    /\ []((ENABLED Foreground)
            \/ (InRead({"while (!g_readyFlag)"}) /\ g_readyFlag = 0))

C14_Witness ==
    /\ RenderDone
    /\ g_distance = 12
    /\ g_stateMachine = "SAFE"
    /\ nCaptures = 2
    /\ lcd = << WStr("Distance= "), WInt(12), WStr("cm") >>

\* The outputs the table of bands gives for distance d.
ShowsDistance(d) == lcd = << WStr("Distance= "), WInt(d), WStr("cm") >>

\* C15: after the render of a cycle that captured tick count t, the outputs
\* are those of the band of floor(t / 117); t = 585 gives distance 5, STOP and
\* one on-then-off cycle of indicators and buzzer; t = 2400 gives distance
\* 20, "Distance= 20cm", R on, G and B off, buzzer off.
C15_EndToEnd ==
    RenderDone =>
        LET t == lastPair
            d == CHOOSE k \in 0..560 : 117 * k <= t /\ t < 117 * (k + 1)
        IN  /\ g_distance = d
            /\ buzzer = FALSE
            /\ d <= 5 =>
                  /\ lcd = << WStr("      STOP      ") >>
                  /\ Rgb = <<FALSE, FALSE, FALSE>>
                  /\ OpsOf(events) =
                        << "LCD_dispDataDanger", "Buzzer_on", "LED_on",
                           "LED_on", "LED_on", "_delay_ms", "Buzzer_off",
                           "LED_off", "LED_off", "LED_off", "_delay_ms" >>
            /\ (6 <= d /\ d <= 10) =>
                  (ShowsDistance(d) /\ Rgb = <<TRUE, TRUE, TRUE>>)
            /\ (11 <= d /\ d <= 15) =>
                  (ShowsDistance(d) /\ Rgb = <<TRUE, TRUE, FALSE>>)
            /\ (16 <= d /\ d <= 20) =>
                  (ShowsDistance(d) /\ Rgb = <<TRUE, FALSE, FALSE>>)
            /\ d > 20 =>
                  (ShowsDistance(d) /\ Rgb = <<FALSE, FALSE, FALSE>>)
            /\ t = 585 => (d = 5 /\ g_stateMachine = "DANGER")
            /\ t = 2400 =>
                  /\ d = 20
                  /\ g_stateMachine = "DETECTED"
                  /\ ShowsDistance(20)

C15_Witness ==
    /\ RenderDone
    /\ lastPair = 2400
    /\ g_distance = 20
    /\ ShowsDistance(20)
    /\ Rgb = <<TRUE, FALSE, FALSE>>
    /\ buzzer = FALSE

\* C16: a captured tick count t >= 2457, up to the largest 16-bit value, is
\* converted without saturation (117 * d <= t < 117 * (d + 1), so 65535 gives
\* 560) to a distance above 20 and classified Idle.
C16_LargeTicksIdle ==
    (Classified /\ g_timeHigh >= 2457) =>
        /\ g_distance > 20
        /\ 117 * g_distance <= g_timeHigh
        /\ g_timeHigh < 117 * (g_distance + 1)
        /\ g_stateMachine = "IDLE"
        /\ g_timeHigh = 65535 => g_distance = 560

C16_Witness ==
    /\ Classified
    /\ g_timeHigh = 65535
    /\ g_distance = 560
    /\ g_stateMachine = "IDLE"

\* C17: when an Ultrasonic_readDistance call starts, and until it enables the
\* capture interrupt, the ready flag is clear and the interrupt is off; the
\* call leaves its wait only with the flag set by a sample stored in this
\* call.
C17_NoStaleSample ==
    /\ InRead({"l_distance = 0", "GPIO_ARR_setPinState", "_delay_us",
               "ICU_interruptOn"}) => (g_readyFlag = 0 /\ ~icuInt)
    /\ InRead({"ICU_interruptOff"}) =>
          (g_readyFlag = 1 /\ nCaptures >= 1 /\ g_timeHigh = lastPair)

C17_Witness ==
    /\ InRead({"l_distance = 0"})
    /\ g_readyFlag = 0
    /\ g_edgeCount = 0
    /\ g_distance = 20

\* C18: with a responding sensor and a running foreground, every
\* Ultrasonic_readDistance call eventually returns and a handler completes
\* infinitely often.
C18_Progress ==
    /\ (fn = "Ultrasonic_readDistance") ~> CallCompleted
    /\ []<>RenderDone

C18_Witness ==
    /\ RenderDone
    /\ g_distance = 21
    /\ nCaptures = 1
    /\ lastPair = 2457

\* C19: whenever the buzzer is on, the band is Danger (distance <= 5) and the
\* foreground is in the Danger handler between Buzzer_on and Buzzer_off; the
\* buzzer is off whenever Ultrasonic_readDistance is in progress.
C19_BuzzerInvariant ==
    /\ buzzer =>
          /\ fn = "handler"
          /\ g_stateMachine = "DANGER"
          /\ g_distance <= 5
          /\ Len(events) >= 2
          /\ Len(events) <= 6
    /\ fn = "Ultrasonic_readDistance" => ~buzzer

C19_Witness ==
    /\ buzzer
    /\ At("handler", "_delay_ms")
    /\ g_distance = 5

\* C20: g_edgeCount is 0 or 1, and the ICU detects falling edges exactly when
\* it is 1 and rising edges exactly when it is 0.
C20_PhasePolarity ==
    /\ g_edgeCount \in {0, 1}
    /\ (edgeType = "FALLING") <=> (g_edgeCount = 1)
    /\ (edgeType = "RAISING") <=> (g_edgeCount = 0)

C20_Witness ==
    /\ g_edgeCount = 1
    /\ edgeType = "FALLING"
    /\ ~icuInt
    /\ fn = "handler"

====
